---- MODULE Spec2Model ----
(***************************************************************************)
(* Watch-Dog Sentinel: the check state machine (services/logic.ts), the    *)
(* alert helpers (services/alert.ts), the settings provider                *)
(* (services/settings.ts) and the HTTP / cron handlers (index.tsx),        *)
(* modelled over the D1 tables projects, checks, logs and settings.        *)
(*                                                                         *)
(* Identifiers are sequences of characters so that the check key           *)
(* `${project_id}:${name}` is computed by concatenation, as in the code.   *)
(* An alert is "emitted" when processCheckResult reaches its call of       *)
(* sendSlackAlert (shouldAlert = true); the variable alerts records those  *)
(* calls.  stopped is the environment's record of the checks whose client  *)
(* has stopped sending pulses for good.  pending holds the invocations of   *)
(* processCheckResult that have read their check row and not yet written.  *)
(***************************************************************************)
EXTENDS Integers, Sequences, FiniteSets, TLC

VARIABLES now, projects, checks, settings, logs, alerts, ev, stopped, pending,
          posted

vars == <<now, projects, checks, settings, logs, alerts, ev, stopped, pending,
          posted>>

\* ------------------------------------------------------------------ bounds
MaxTime == 4
MaxLogs == 3
MaxInflight == 3
MaxCount == 3

\* --------------------------------------------------------- program constants
DefaultInterval == 300
DefaultGrace == 60
DefaultThreshold == 1
DefaultCooldown == 900
DefaultSilence == 3600
DefaultMaintenance == 3600
LogRetention == 604800

\* ------------------------------------------------------------------- values
\* A missing header or JSON string field is the empty string (the handlers test
\* them with `!x`); a missing numeric field is the empty sequence, a present
\* one the one-element sequence <<n>>.
Absent == <<>>
Has(v) == v # Absent
Val(v) == v[1]
withDefault(v, d) == IF Has(v) THEN Val(v) ELSE d

\* project ids and check names, as character sequences
PA == <<"a">>
PAB == <<"a", ":", "b">>
WD == <<"watch-dog">>
NC == <<"c">>
NBC == <<"b", ":", "c">>
SelfName == <<"self-health">>
NoId == <<>>

\* `${project_id}:${name}`
CheckId(project_id, name) == project_id \o <<":">> \o name

selfCheckId == CheckId(WD, SelfName)

Tokens == {"t1", "t2"}

\* ---------------------------------------------------------------- settings
\* getAllSettings: parseInt(row.value, 10) || 3600
ParseSilence(value) == IF value # 0 THEN value ELSE DefaultSilence

getSilencePeriod == ParseSilence(settings.silence_period_seconds)

\* --------------------------------------------------------------- alert.ts
isInSilencePeriod(lastAlertAt, silencePeriodSeconds, t) ==
  IF lastAlertAt = 0 THEN FALSE
  ELSE (t - lastAlertAt) < silencePeriodSeconds

\* --------------------------------------------------------------- logic.ts
inMaintenance_Reversed(project, t) == project.maintenance_until < t

inMaintenance(project, t) == project.maintenance_until > t

hitThreshold(check, failureCount) == failureCount >= check.threshold

recoveryDue_NoThreshold(check) == check.status # "ok"

recoveryDue(check) ==
  check.status # "ok" /\ check.failure_count >= check.threshold

failureCountAfter_ResetOnRecovery(check, newStatus) ==
  IF newStatus = "ok"
  THEN IF recoveryDue(check) THEN 0 ELSE check.failure_count
  ELSE check.failure_count + 1

failureCountAfter_CountsAll(check, newStatus) == check.failure_count + 1

failureCountAfter_NoReset(check, newStatus) ==
  IF newStatus = "ok" THEN check.failure_count ELSE check.failure_count + 1

failureCountAfter(check, newStatus) ==
  IF newStatus = "ok" THEN 0 ELSE check.failure_count + 1

\* the silence period compared against now - last_alert_at
silenceFor(check, silencePeriod) == silencePeriod

\* the level handed to sendSlackAlert, or "" when shouldAlert stays false
alertLevel(check, project, newStatus, silencePeriod, t) ==
  IF newStatus = "ok"
  THEN IF recoveryDue(check) THEN "recovery" ELSE ""
  ELSE IF /\ ~inMaintenance(project, t)
          /\ hitThreshold(check, failureCountAfter(check, newStatus))
          /\ ~isInSilencePeriod(check.last_alert_at,
                                silenceFor(check, silencePeriod), t)
       THEN IF newStatus = "dead" THEN "critical" ELSE "warning"
       ELSE ""

\* last_seen as bound in the UPDATE of processCheckResult
lastSeenAfter(check, newStatus, t) == t

rowAfter_NoRecoveryStamp(check, project, newStatus, message, silencePeriod, t) ==
  [check EXCEPT
     !.status = newStatus,
     !.last_seen = lastSeenAfter(check, newStatus, t),
     !.failure_count = failureCountAfter(check, newStatus),
     !.last_alert_at =
        IF alertLevel(check, project, newStatus, silencePeriod, t)
             \in {"warning", "critical"}
        THEN t ELSE @,
     !.last_message = message]

\* the row written by the UPDATE of processCheckResult
rowAfter(check, project, newStatus, message, silencePeriod, t) ==
  [check EXCEPT
     !.status = newStatus,
     !.last_seen = lastSeenAfter(check, newStatus, t),
     !.failure_count = failureCountAfter(check, newStatus),
     !.last_alert_at =
        IF alertLevel(check, project, newStatus, silencePeriod, t) # ""
        THEN t ELSE @,
     !.last_message = message]

logRow(id, status, t) == [check_id |-> id, status |-> status, created_at |-> t]

alertRow(id, level, t) == [check |-> id, level |-> level, at |-> t]

alertsOf_EveryChannel(id, check, project, newStatus, silencePeriod, t) ==
  IF alertLevel(check, project, newStatus, silencePeriod, t) = "" THEN {}
  ELSE {alertRow(id, "warning", t), alertRow(id, "critical", t)}

\* the sendSlackAlert call made by one processCheckResult, if any
alertsOf(id, check, project, newStatus, silencePeriod, t) ==
  IF alertLevel(check, project, newStatus, silencePeriod, t) = "" THEN {}
  ELSE {alertRow(id, alertLevel(check, project, newStatus, silencePeriod, t), t)}

\* ------------------------------------------------------- services/alert.ts
\* CHANNEL_MAP[level]: the settings key of a level, none for a level outside it
CHANNEL_MAP(level) ==
  IF level = "critical" THEN "channel_critical"
  ELSE IF level = "recovery" THEN "channel_success"
  ELSE IF level = "warning" THEN "channel_critical"
  ELSE ""

\* settings[CHANNEL_MAP[level]]
channelId(set, level) ==
  IF CHANNEL_MAP(level) = "channel_critical" THEN set.channel_critical
  ELSE IF CHANNEL_MAP(level) = "channel_success" THEN set.channel_success
  ELSE ""

\* one chat.postMessage request
slackPost(channel, data) ==
  [channel |-> channel, level |-> data.level, check |-> data.checkId]

sendSlackAlert_NoChannelTest(set, data) ==
  IF set.api_token = "" THEN {}
  ELSE {slackPost(channelId(set, data.level), data)}

\* sendSlackAlert(db, data): the requests it posts, none after an early return
sendSlackAlert(set, data) ==
  IF set.api_token = "" THEN {}
  ELSE IF channelId(set, data.level) = "" THEN {}
  ELSE {slackPost(channelId(set, data.level), data)}

\* the worker's Env read as SlackAlertData: it has no checkId and no level
envAsData == [checkId |-> NoId, level |-> ""]

\* await sendSlackAlert(db, env, {...}) in processCheckResult: the function
\* has two parameters, so env is its data and the alert object is dropped
notified(set, emitted) ==
  UNION {sendSlackAlert(set, envAsData) : a \in emitted}

isOverdue_Inclusive(check, t) ==
  (check.last_seen + check.interval + check.grace) <= t

\* the deadline test in the WHERE clause of findDeadChecks
isOverdue(check, t) ==
  (check.last_seen + check.interval + check.grace) < t

findDeadChecks_DeadAgain(tbl, pro, t) ==
  {id \in DOMAIN tbl :
     /\ tbl[id].project_id \in DOMAIN pro
     /\ tbl[id].type = "heartbeat"
     /\ tbl[id].monitor = 1
     /\ isOverdue(tbl[id], t)}

\* findDeadChecks: checks JOIN projects with the WHERE clause
findDeadChecks(tbl, pro, t) ==
  {id \in DOMAIN tbl :
     /\ tbl[id].project_id \in DOMAIN pro
     /\ tbl[id].type = "heartbeat"
     /\ tbl[id].status # "dead"
     /\ tbl[id].monitor = 1
     /\ isOverdue(tbl[id], t)}

\* ---------------------------------------------------------- table helpers
\* a function with one more (or one replaced) entry
Put(f, k, v) == [x \in DOMAIN f \cup {k} |-> IF x = k THEN v ELSE f[x]]

EmptyTable == [x \in {} |-> 0]

RECURSIVE SetToSeq(_)
SetToSeq(S) ==
  IF S = {} THEN <<>>
  ELSE LET x == CHOOSE y \in S : TRUE IN <<x>> \o SetToSeq(S \ {x})

LogRoom(k) == Len(logs) + k <= MaxLogs

\* ------------------------------------------------------------------- Init
\* ev describes the request or tick handled last: the operation, the project and
\* check it resolved, the token presented, the status applied, the HTTP status
\* returned, the sendSlackAlert calls it made and the checks it handled as dead;
\* arg is the duration field of a maintenance request
Event(op, pid, cid, token, status, resp, emitted, dead) ==
  [op |-> op, pid |-> pid, cid |-> cid, token |-> token, status |-> status,
   resp |-> resp, emitted |-> emitted, dead |-> dead, arg |-> Absent]

Init ==
  /\ now = 1
  /\ projects = EmptyTable
  /\ checks = EmptyTable
  /\ settings = [api_token |-> "", channel_critical |-> "",
                 channel_success |-> "", silence_period_seconds |-> DefaultSilence]
  /\ logs = <<>>
  /\ alerts = {}
  /\ stopped = {}
  /\ pending = <<>>
  /\ posted = {}
  /\ ev = [op |-> "init", pid |-> NoId, cid |-> NoId, token |-> "", status |-> "",
           resp |-> 0, emitted |-> {}, dead |-> {}, arg |-> Absent]

\* ------------------------------------------------------ POST /api/pulse
\* the project a pulse is scoped to: looked up by token when the body names
\* none, else the named project provided its stored token matches
pulseProjects(token, projectIdFromBody) ==
  IF projectIdFromBody = NoId
  THEN {p \in DOMAIN projects : projects[p].token = token}
  ELSE IF /\ projectIdFromBody \in DOMAIN projects
          /\ projects[projectIdFromBody].token = token
       THEN {projectIdFromBody}
       ELSE {}

pulseStatus(status) == IF status = "error" THEN "error" ELSE "ok"

pulseMessage(message, status) ==
  IF message # "" THEN message
  ELSE IF status = "error" THEN "Service reported error" ELSE "Pulse received"

\* the status returned when the presented token identifies no project
\* ('Invalid token') or is not the named project's ('Invalid token for project')
invalidTokenStatus_Unauthorized(projectIdFromBody) ==
  IF projectIdFromBody = NoId THEN 401 ELSE 403

invalidTokenStatus(projectIdFromBody) == 403

\* a request that is answered without touching a table
Reject(op, pid, cid, token, status, resp) ==
  /\ ev' = Event(op, pid, cid, token, status, resp, {}, {})
  /\ UNCHANGED <<now, projects, checks, settings, logs, alerts, stopped, pending, posted>>

PulseReq(token, projectIdFromBody, check_name, status, message) ==
  IF token = "" THEN Reject("pulse", projectIdFromBody, NoId, token, status, 401)
  ELSE IF pulseProjects(token, projectIdFromBody) = {}
  THEN Reject("pulse", projectIdFromBody, NoId, token, status,
              invalidTokenStatus(projectIdFromBody))
  ELSE \E projectId \in pulseProjects(token, projectIdFromBody) :
    IF check_name = NoId
    THEN Reject("pulse", projectId, NoId, token, status, 400)
    ELSE LET checkId == CheckId(projectId, check_name) IN
      IF checkId \notin DOMAIN checks
      THEN Reject("pulse", projectId, checkId, token, status, 404)
      ELSE LET check == checks[checkId]
               project == projects[projectId]
               newStatus == pulseStatus(status)
               msg == pulseMessage(message, status)
               sp == getSilencePeriod
           IN /\ LogRoom(1)
              /\ checks' = [checks EXCEPT ![checkId] =
                              rowAfter(check, project, newStatus, msg, sp, now)]
              /\ logs' = Append(logs, logRow(checkId, newStatus, now))
              /\ alerts' = alerts \cup
                              alertsOf(checkId, check, project, newStatus, sp, now)
              /\ posted' = posted \cup
                   notified(settings,
                            alertsOf(checkId, check, project, newStatus, sp, now))
              /\ ev' = Event("pulse", projectId, checkId, token, newStatus, 200,
                             alertsOf(checkId, check, project, newStatus, sp, now), {})
              /\ UNCHANGED <<now, projects, settings, stopped, pending>>

\* a pulse whose body is not JSON: c.req.json() throws after the header test
PulseMalformed(token) ==
  IF token = "" THEN Reject("pulse", NoId, NoId, token, "malformed", 401)
  ELSE Reject("pulse", NoId, NoId, token, "malformed", 400)

\* ------------------------------------------------------- PUT /api/config
cfgValid(c) == c.name # NoId /\ c.type \in {"heartbeat", "event"}

newCheckRow_SeenOnCreate(project_id, c) ==
  [project_id |-> project_id, name |-> c.name,
   display_name |-> IF c.display_name # "" THEN c.display_name ELSE c.name,
   type |-> c.type,
   interval |-> withDefault(c.interval, DefaultInterval),
   grace |-> withDefault(c.grace, DefaultGrace),
   threshold |-> withDefault(c.threshold, DefaultThreshold),
   cooldown |-> withDefault(c.cooldown, DefaultCooldown),
   last_seen |-> 1, status |-> "ok", failure_count |-> 0, last_alert_at |-> 0,
   last_message |-> "", monitor |-> 1]

\* the row of the INSERT INTO checks of a registration
newCheckRow(project_id, c) ==
  [project_id |-> project_id, name |-> c.name,
   display_name |-> IF c.display_name # "" THEN c.display_name ELSE c.name,
   type |-> c.type,
   interval |-> withDefault(c.interval, DefaultInterval),
   grace |-> withDefault(c.grace, DefaultGrace),
   threshold |-> withDefault(c.threshold, DefaultThreshold),
   cooldown |-> withDefault(c.cooldown, DefaultCooldown),
   last_seen |-> 0, status |-> "ok", failure_count |-> 0, last_alert_at |-> 0,
   last_message |-> "", monitor |-> 1]

upsertCheck_Replace(tbl, project_id, c) ==
  IF ~cfgValid(c) THEN tbl
  ELSE Put(tbl, CheckId(project_id, c.name), newCheckRow(project_id, c))

\* INSERT ... ON CONFLICT (id) DO UPDATE SET the rule attributes
upsertCheck(tbl, project_id, c) ==
  LET checkId == CheckId(project_id, c.name) IN
  IF ~cfgValid(c) THEN tbl
  ELSE IF checkId \notin DOMAIN tbl THEN Put(tbl, checkId, newCheckRow(project_id, c))
  ELSE [tbl EXCEPT ![checkId] =
          [@ EXCEPT !.display_name = newCheckRow(project_id, c).display_name,
                    !.type = c.type,
                    !.interval = newCheckRow(project_id, c).interval,
                    !.grace = newCheckRow(project_id, c).grace,
                    !.threshold = newCheckRow(project_id, c).threshold,
                    !.cooldown = newCheckRow(project_id, c).cooldown]]

RECURSIVE upsertChecks(_, _, _)
upsertChecks(tbl, project_id, cfgs) ==
  IF cfgs = <<>> THEN tbl
  ELSE upsertChecks(upsertCheck(tbl, project_id, Head(cfgs)), project_id, Tail(cfgs))

\* INSERT INTO projects ... ON CONFLICT (id) DO UPDATE SET display_name
upsertProject(pro, project_id, token, display_name, t) ==
  IF project_id \in DOMAIN pro
  THEN [pro EXCEPT ![project_id] = [@ EXCEPT !.display_name = display_name]]
  ELSE Put(pro, project_id, [token |-> token, display_name |-> display_name,
                             maintenance_until |-> 0, created_at |-> t])

tokenMismatch_Never(pro, project_id, token) == FALSE

\* existingProject && existingProject.token !== token
tokenMismatch(pro, project_id, token) ==
  project_id \in DOMAIN pro /\ pro[project_id].token # token

RegisterReq(token, project_id, display_name, cfgs) ==
  IF token = "" THEN Reject("register", project_id, NoId, token, "", 401)
  ELSE IF project_id = NoId \/ display_name = ""
  THEN Reject("register", project_id, NoId, token, "", 400)
  ELSE IF tokenMismatch(projects, project_id, token)
  THEN Reject("register", project_id, NoId, token, "", 403)
  ELSE /\ projects' = upsertProject(projects, project_id, token, display_name, now)
       /\ checks' = upsertChecks(checks, project_id, cfgs)
       /\ ev' = Event("register", project_id, NoId, token, "", 200, {}, {})
       /\ UNCHANGED <<now, settings, logs, alerts, stopped, pending, posted>>

\* ----------------------------------------- POST /api/maintenance/:projectId
newMaintenanceUntil_AlwaysToggle(project, enabled, duration, t) ==
  IF enabled = "false" THEN 0
  ELSE IF enabled = "true" THEN t + withDefault(duration, DefaultMaintenance)
  ELSE IF project.maintenance_until > t THEN 0
  ELSE t + DefaultMaintenance

\* enabled is "true", "false" or "" when the body has no enabled field
newMaintenanceUntil(project, enabled, duration, t) ==
  IF enabled = "false" THEN 0
  ELSE IF enabled = "true" THEN t + withDefault(duration, DefaultMaintenance)
  ELSE IF Has(duration) THEN t + Val(duration)
  ELSE IF project.maintenance_until > t THEN 0
  ELSE t + DefaultMaintenance

MaintenanceReq(projectId, enabled, duration) ==
  IF projectId \notin DOMAIN projects
  THEN Reject("maintenance", projectId, NoId, "", enabled, 404)
  ELSE /\ projects' = [projects EXCEPT ![projectId] =
            [@ EXCEPT !.maintenance_until =
                 newMaintenanceUntil(projects[projectId], enabled, duration, now)]]
       /\ ev' = [Event("maintenance", projectId, NoId, "", enabled, 200, {}, {})
                  EXCEPT !.arg = duration]
       /\ UNCHANGED <<now, checks, settings, logs, alerts, stopped, pending, posted>>

\* ------------------------------------------------------------ admin routes
Max(a, b) == IF a >= b THEN a ELSE b

\* x ? Math.max(lo, parseInt(x, 10) || d) : d
parsedField(v, lo, d) ==
  IF Has(v) THEN Max(lo, IF Val(v) # 0 THEN Val(v) ELSE d) ELSE d

MinInterval == 10

\* POST /admin/checks/:checkId
AdminUpdateCheck(checkId, form) ==
  /\ checks' =
       IF checkId \in DOMAIN checks
       THEN [checks EXCEPT ![checkId] =
               [@ EXCEPT
                  !.display_name = form.display_name,
                  !.type = IF form.type \in {"heartbeat", "event"}
                           THEN form.type ELSE "heartbeat",
                  !.interval = parsedField(form.interval, MinInterval, DefaultInterval),
                  !.grace = parsedField(form.grace, 0, DefaultGrace),
                  !.threshold = parsedField(form.threshold, 1, DefaultThreshold),
                  !.cooldown = parsedField(form.cooldown, 0, DefaultCooldown)]]
       ELSE checks
  /\ ev' = Event("admin_update", NoId, checkId, "", "", 302, {}, {})
  /\ UNCHANGED <<now, projects, settings, logs, alerts, stopped, pending, posted>>

\* POST /admin/checks/:checkId/toggle
AdminToggle(checkId, monitorValue) ==
  /\ checks' =
       IF checkId \in DOMAIN checks
       THEN [checks EXCEPT ![checkId] =
               [@ EXCEPT !.monitor = IF monitorValue = "1" THEN 1 ELSE 0]]
       ELSE checks
  /\ ev' = Event("admin_toggle", NoId, checkId, "", "", 200, {}, {})
  /\ UNCHANGED <<now, projects, settings, logs, alerts, stopped, pending, posted>>

\* POST /admin/settings/slack
AdminSettings(slack, silence) ==
  /\ settings' = [api_token |-> slack.api_token,
                  channel_critical |-> slack.channel_critical,
                  channel_success |-> slack.channel_success,
                  silence_period_seconds |-> silence]
  /\ ev' = Event("admin_settings", NoId, NoId, "", "", 200, {}, {})
  /\ UNCHANGED <<now, projects, checks, logs, alerts, stopped, pending, posted>>

\* ------------------------------------------------------------- scheduled
\* the self-pulse UPDATE of watch-dog:self-health, when the row exists
selfPulsed_LastSeenOnly(tbl, t) ==
  IF selfCheckId \in DOMAIN tbl
  THEN [tbl EXCEPT ![selfCheckId] = [@ EXCEPT !.last_seen = t]]
  ELSE tbl

\* the self-health UPDATE of scheduled, made when the row exists
selfPulsed(tbl, t) ==
  IF selfCheckId \in DOMAIN tbl
  THEN [tbl EXCEPT ![selfCheckId] =
          [@ EXCEPT !.status = "ok", !.last_seen = t, !.failure_count = 0,
                    !.last_message = "Cron heartbeat received"]]
  ELSE tbl

selfLog(tbl, t) ==
  IF selfCheckId \in DOMAIN tbl THEN <<logRow(selfCheckId, "ok", t)>> ELSE <<>>

\* the checks of one tick that go through processCheckResult as dead
deadChecks(tbl, pro, t) == findDeadChecks(tbl, pro, t) \ {selfCheckId}

deadLogs(ids, t) == [i \in 1..Len(ids) |-> logRow(ids[i], "dead", t)]

pruned_Inclusive(rows, t) ==
  SelectSeq(rows, LAMBDA r : ~(r.created_at <= t - LogRetention))

\* DELETE FROM logs WHERE created_at < now - 604800
pruned(rows, t) == SelectSeq(rows, LAMBDA r : ~(r.created_at < t - LogRetention))

Sweep ==
  LET tbl == selfPulsed(checks, now)
      dead == deadChecks(tbl, projects, now)
      sp == getSilencePeriod
      emitted == UNION {alertsOf(id, tbl[id], projects[tbl[id].project_id],
                                 "dead", sp, now) : id \in dead}
  IN /\ checks' = [id \in DOMAIN tbl |->
                     IF id \in dead
                     THEN rowAfter(tbl[id], projects[tbl[id].project_id], "dead",
                                   "Heartbeat missed", sp, now)
                     ELSE tbl[id]]
     /\ logs' = pruned(logs \o selfLog(checks, now) \o deadLogs(SetToSeq(dead), now), now)
     /\ alerts' = alerts \cup emitted
     /\ posted' = posted \cup notified(settings, emitted)
     /\ ev' = Event("tick", NoId, NoId, "", "", 0, emitted, dead)
     /\ UNCHANGED <<now, projects, settings, stopped, pending>>

\* the cron trigger, while the log table has room in the model
Tick ==
  /\ LogRoom(Cardinality(deadChecks(selfPulsed(checks, now), projects, now))
             + Len(selfLog(checks, now)))
  /\ Sweep

\* a tick in which processCheckResult throws at the UPDATE of check failed:
\* the checks the loop handled before it (done) are written, the exception
\* leaves the loop and the log clean-up for the catch around the whole tick
SweepFault ==
  LET tbl == selfPulsed(checks, now)
      dead == deadChecks(tbl, projects, now)
      sp == getSilencePeriod
  IN \E failed \in dead : \E done \in SUBSET (dead \ {failed}) :
      LET emitted == UNION {alertsOf(id, tbl[id], projects[tbl[id].project_id],
                                     "dead", sp, now) : id \in done}
      IN /\ LogRoom(Cardinality(done) + Len(selfLog(checks, now)))
         /\ checks' = [id \in DOMAIN tbl |->
                         IF id \in done
                         THEN rowAfter(tbl[id], projects[tbl[id].project_id],
                                       "dead", "Heartbeat missed", sp, now)
                         ELSE tbl[id]]
         /\ logs' = logs \o selfLog(checks, now) \o deadLogs(SetToSeq(done), now)
         /\ alerts' = alerts \cup emitted
         /\ posted' = posted \cup notified(settings, emitted)
         /\ ev' = Event("tick", NoId, failed, "", "fault", 0, emitted, done)
         /\ UNCHANGED <<now, projects, settings, stopped, pending>>

\* ------------------------------------------------------------------ clock
Advance ==
  /\ now < MaxTime
  /\ now' = now + 1
  /\ ev' = Event("advance", NoId, NoId, "", "", 0, {}, {})
  /\ UNCHANGED <<projects, checks, settings, logs, alerts, stopped, pending, posted>>

\* ----------------------------------------------------------------- inputs
cfg(name, type, interval, grace, threshold, cooldown) ==
  [name |-> name, display_name |-> "", type |-> type, interval |-> interval,
   grace |-> grace, threshold |-> threshold, cooldown |-> cooldown]

\* check configurations a client may send for a check name
ConfigsFor(name) ==
  {cfg(name, "heartbeat", <<1>>, <<1>>, <<2>>, <<3>>),
   cfg(name, "event", Absent, Absent, Absent, <<0>>),
   cfg(name, "cron", Absent, Absent, Absent, Absent)}

SelfConfig == cfg(SelfName, "heartbeat", Absent, Absent, Absent, Absent)

\* the checks arrays sent with a registration: none, one, or two configurations
ConfigLists(S) ==
  {<<>>} \cup {<<c>> : c \in S}
         \cup {<<c, d>> : c \in {x \in S : x.type = "heartbeat"},
                           d \in {x \in S : x.type = "event"}}

\* the admin edit form, as submitted
Forms ==
  {[display_name |-> NC, type |-> "", interval |-> <<1>>,
    grace |-> <<1>>, threshold |-> <<0>>, cooldown |-> <<0>>]}

SlackInputs ==
  {[api_token |-> "xoxb", channel_critical |-> "C1", channel_success |-> "C2"]}

SilenceInputs == {2}

\* --------------------------------------------------------------- CoreSpec
\* The check state machine on one check of one project: registration, pulses,
\* maintenance, the silence setting, sweeps and the clock.
CoreRegister ==
  \E cfgs \in ConfigLists(ConfigsFor(NC)) : RegisterReq("t1", PA, "A", cfgs)

CorePulse ==
  \E status \in {"ok", "error"}, pid \in {PA, NoId} :
    PulseReq("t1", pid, NC, status, "")

CoreMaintenance ==
  \/ MaintenanceReq(PA, "true", <<1>>)
  \/ MaintenanceReq(PA, "false", Absent)

CoreSettings ==
  \E slack \in SlackInputs, silence \in SilenceInputs : AdminSettings(slack, silence)

CoreNext ==
  CoreRegister \/ CorePulse \/ CoreMaintenance \/ CoreSettings \/ Tick \/ Advance

CoreSpec == Init /\ [][CoreNext]_vars

\* ------------------------------------------------------------------- Spec
\* The tables under every operation that writes a check row: registration of a
\* client check and of the self-health check, pulses for both, the admin rule
\* edits and monitor toggle, sweeps with the self-pulse, and the clock.
Register ==
  \/ \E cfgs \in ConfigLists(ConfigsFor(NC)) : RegisterReq("t1", PA, "A", cfgs)
  \/ RegisterReq("t1", WD, "Watch-Dog", <<SelfConfig>>)

Pulse ==
  \E status \in {"ok", "error"} :
    \/ PulseReq("t1", PA, NC, status, "")
    \/ (status = "error" /\ PulseReq("t1", WD, SelfName, status, ""))

Admin ==
  \/ \E form \in Forms : AdminUpdateCheck(CheckId(PA, NC), form)
  \/ \E v \in {"0", "1"} : AdminToggle(CheckId(PA, NC), v)

Next == Register \/ Pulse \/ Admin \/ Tick \/ Advance

Spec == Init /\ [][Next]_vars

\* ------------------------------------------------------------- StreamSpec
\* A check whose rules and silence setting are fixed before its first event,
\* then any sequence of pulses, sweeps and maintenance changes on it.
StreamSetup == logs = <<>> /\ (CoreRegister \/ CoreSettings)

StreamNext == StreamSetup \/ CorePulse \/ CoreMaintenance \/ Tick \/ Advance

StreamSpec == Init /\ [][StreamNext]_vars

\* --------------------------------------------------------------- LiveSpec
\* A monitored heartbeat check whose client pulses for a while and then stops
\* for good, under a cron trigger that keeps firing and a clock that keeps
\* running (up to MaxTime, by when every stopped check is overdue).
LiveConfigs ==
  {cfg(NC, "heartbeat", <<1>>, <<1>>, Absent, Absent),
   cfg(NC, "heartbeat", <<1>>, <<1>>, <<2>>, <<3>>)}

LiveRegister ==
  \E c \in LiveConfigs :
    CheckId(PA, NC) \notin DOMAIN checks /\ RegisterReq("t1", PA, "A", <<c>>)

LivePulse ==
  \E status \in {"ok", "error"} :
    CheckId(PA, NC) \notin stopped /\ PulseReq("t1", PA, NC, status, "")

\* the client of check c stops while the check is not dead, early enough for
\* its deadline to fall before MaxTime
LiveStop ==
  LET c == CheckId(PA, NC) IN
  /\ c \in DOMAIN checks /\ c \notin stopped
  /\ checks[c].status # "dead"
  /\ checks[c].last_seen + checks[c].interval + checks[c].grace < MaxTime
  /\ stopped' = stopped \cup {c}
  /\ ev' = Event("stop", NoId, c, "", "", 0, {}, {})
  /\ UNCHANGED <<now, projects, checks, settings, logs, alerts, pending, posted>>

\* a maintenance window that ends before MaxTime
LiveMaintenance == now + 1 < MaxTime /\ MaintenanceReq(PA, "true", <<1>>)

LiveNext ==
  LiveRegister \/ LivePulse \/ LiveStop \/ LiveMaintenance \/ Sweep \/ Advance

LiveSpec ==
  Init /\ [][LiveNext]_vars /\ WF_vars(Sweep) /\ WF_vars(Advance)

\* --------------------------------------------------------------- RaceSpec
\* Overlapping invocations on one check.  A pulse request, or the dead
\* checks loop of a tick, first reads the check and project rows; the
\* UPDATE, the log INSERT and the sendSlackAlert call of processCheckResult
\* happen in a later step, computed from the rows as they were read.
Invocation(cid, check, project, status, message, t) ==
  [cid |-> cid, check |-> check, project |-> project, status |-> status,
   message |-> message, t |-> t]

Remove(seq, i) == SubSeq(seq, 1, i - 1) \o SubSeq(seq, i + 1, Len(seq))

\* POST /api/pulse up to the call of processCheckResult, for an accepted pulse
PulseRead(token, projectIdFromBody, check_name, status, message) ==
  \E projectId \in pulseProjects(token, projectIdFromBody) :
    LET checkId == CheckId(projectId, check_name) IN
    /\ token # "" /\ check_name # NoId
    /\ checkId \in DOMAIN checks
    /\ Len(pending) < MaxInflight
    /\ pending' = Append(pending,
                         Invocation(checkId, checks[checkId], projects[projectId],
                                    pulseStatus(status),
                                    pulseMessage(message, status), now))
    /\ ev' = Event("read", projectId, checkId, token, pulseStatus(status), 0, {}, {})
    /\ UNCHANGED <<now, projects, checks, settings, logs, alerts, stopped, posted>>

\* scheduled up to the dead checks loop: the self-health pulse and the
\* findDeadChecks query, whose rows the loop then works from
SweepRead ==
  LET tbl == selfPulsed(checks, now)
      dead == SetToSeq(deadChecks(tbl, projects, now))
  IN /\ dead # <<>>
     /\ Len(pending) + Len(dead) <= MaxInflight
     /\ LogRoom(Len(selfLog(checks, now)))
     /\ checks' = tbl
     /\ logs' = logs \o selfLog(checks, now)
     /\ pending' = pending \o
          [i \in 1..Len(dead) |->
             Invocation(dead[i], tbl[dead[i]], projects[tbl[dead[i]].project_id],
                        "dead", "Heartbeat missed", now)]
     /\ ev' = Event("sweep", NoId, NoId, "", "dead", 0, {}, {})
     /\ UNCHANGED <<now, projects, settings, alerts, stopped, posted>>

\* the columns set by the UPDATE of processCheckResult, on the row as it is
writtenOver(row, r) ==
  [row EXCEPT !.status = r.status, !.last_seen = r.last_seen,
              !.failure_count = r.failure_count,
              !.last_alert_at = r.last_alert_at,
              !.last_message = r.last_message]

\* processCheckResult of invocation i: its now is taken between the read and
\* the write; the row written is computed from the row read
CheckWrite(i) ==
  LET inv == pending[i]
      sp == getSilencePeriod
  IN \E t \in inv.t..now :
      LET r == rowAfter(inv.check, inv.project, inv.status, inv.message, sp, t)
          emitted == alertsOf(inv.cid, inv.check, inv.project, inv.status, sp, t)
      IN /\ LogRoom(1)
         /\ checks' = [checks EXCEPT ![inv.cid] = writtenOver(@, r)]
         /\ logs' = Append(logs, logRow(inv.cid, inv.status, t))
         /\ alerts' = alerts \cup emitted
         /\ posted' = posted \cup notified(settings, emitted)
         /\ pending' = Remove(pending, i)
         /\ ev' = Event("write", inv.check.project_id, inv.cid, inv.project.token, inv.status, 200,
                        emitted, {})
         /\ UNCHANGED <<now, projects, settings, stopped>>

RaceConfigs ==
  {cfg(NC, "event", Absent, Absent, Absent, <<0>>),
   cfg(NC, "heartbeat", <<1>>, <<1>>, Absent, <<0>>)}

RaceRegister ==
  \E c \in RaceConfigs :
    checks = EmptyTable /\ RegisterReq("t1", PA, "A", <<c>>)

RacePulse ==
  \E status \in {"ok", "error"} : PulseRead("t1", PA, NC, status, "")

RaceWrite == \E i \in DOMAIN pending : CheckWrite(i)

RaceNext == RaceRegister \/ RacePulse \/ SweepRead \/ RaceWrite \/ Advance

RaceSpec == Init /\ [][RaceNext]_vars

\* -------------------------------------------------------------- FaultSpec
\* Two heartbeat checks of one project under ticks during which the Store may
\* fail one check's UPDATE.
FaultConfigs ==
  {<<cfg(NC, "heartbeat", <<1>>, <<1>>, Absent, Absent)>>,
   <<cfg(NC, "heartbeat", <<1>>, <<1>>, Absent, Absent),
     cfg(NBC, "heartbeat", <<1>>, <<1>>, Absent, Absent)>>}

FaultRegister == \E cfgs \in FaultConfigs : RegisterReq("t1", PA, "A", cfgs)

FaultPulse == \E name \in {NC, NBC} : PulseReq("t1", PA, name, "ok", "")

FaultNext == FaultRegister \/ FaultPulse \/ Tick \/ SweepFault \/ Advance

FaultSpec == Init /\ [][FaultNext]_vars

\* ----------------------------------------------------------- RegisterSpec
\* Registrations of one project, repeated and changed, between error pulses,
\* a maintenance window, a monitor toggle and the clock.
RegisterCalls ==
  {<<"t1", PA, "A", cfgs>> : cfgs \in ConfigLists(ConfigsFor(NC))}

RegRegister == \E r \in RegisterCalls : RegisterReq(r[1], r[2], r[3], r[4])

RegPulse == PulseReq("t1", PA, NC, "error", "")

RegMaintenance == MaintenanceReq(PA, "true", <<1>>)

RegToggle == AdminToggle(CheckId(PA, NC), "0")

RegNext == RegRegister \/ RegPulse \/ RegMaintenance \/ RegToggle \/ Advance

RegisterSpec == Init /\ [][RegNext]_vars

\* --------------------------------------------------------------- AuthSpec
\* Two projects whose ids and check names contain the key separator, each
\* registering and pulsing with its own or with the other's token.
AuthConfigs(name) == {cfg(name, "event", Absent, Absent, Absent, Absent)}

AuthRegister ==
  \E token \in Tokens, pid \in {PA, PAB}, name \in {NC, NBC} :
    \E c \in AuthConfigs(name) : RegisterReq(token, pid, "A", <<c>>)

AuthPulse ==
  \E token \in Tokens \cup {""}, pid \in {PA, PAB, NoId},
     name \in {NC, NBC, NoId} :
       PulseReq(token, pid, name, "error", "")

AuthMalformed == \E token \in Tokens \cup {""} : PulseMalformed(token)

AuthNext == AuthRegister \/ AuthPulse \/ AuthMalformed

AuthSpec == Init /\ [][AuthNext]_vars

\* ------------------------------------------------------- claim vocabulary
\* the cooldown the specification calls effective: the check's own when > 0,
\* the global silence period otherwise
EffectiveCooldown(check) ==
  IF check.cooldown > 0 THEN check.cooldown ELSE getSilencePeriod

\* (action) the step applied a pulse of the given status to check c
PulseApplied(c, status) ==
  ev'.op = "pulse" /\ ev'.resp = 200 /\ ev'.cid = c /\ ev'.status = status

\* (action) the step applied a dead event to check c
DeadApplied(c) == ev'.op = "tick" /\ c \in ev'.dead

\* (action) the step applied a failure event to check c
FailureApplied(c) == PulseApplied(c, "error") \/ DeadApplied(c)

\* (action) the levels of the alerts the step emitted for check c
LevelsEmitted(c) == {a.level : a \in {x \in ev'.emitted : x.check = c}}

NonRecovery(a) == a.level \in {"warning", "critical"}

\* C1: every check row has failure_count >= 0, and status = ok exactly when
\* failure_count = 0, after any sequence of register, pulse, sweep (dead events
\* and the self-pulse) and admin rule edits.
C1_StatusMatchesCount ==
  \A c \in DOMAIN checks :
    /\ checks[c].failure_count >= 0
    /\ (checks[c].status = "ok") <=> (checks[c].failure_count = 0)

\* a sweep has just reset a failing self-health row while a client check is dead
C1_Witness ==
  /\ ev.op = "tick"
  /\ selfCheckId \in DOMAIN checks
  /\ \E l \in 1..Len(logs) : logs[l].check_id = selfCheckId /\ logs[l].status = "error"
  /\ \E c \in DOMAIN checks : checks[c].status = "dead" /\ checks[c].failure_count > 0

\* C2 (as claimed): a failure event alerts exactly when the project is not in
\* maintenance, the incremented failure_count has reached the threshold, and
\* the check never alerted or now - last_alert_at >= its effective cooldown.
C2_FailureAlertIff ==
  [][\A c \in DOMAIN checks :
       FailureApplied(c) =>
         ((LevelsEmitted(c) # {}) <=>
            /\ ~(projects[checks[c].project_id].maintenance_until > now)
            /\ checks[c].failure_count + 1 >= checks[c].threshold
            /\ \/ checks[c].last_alert_at = 0
               \/ now - checks[c].last_alert_at >= EffectiveCooldown(checks[c]))]_vars

\* C3 (as claimed): two non-recovery alerts of one check at t1 < t2 are at
\* least the check's effective cooldown apart.
C3_AlertSpacing ==
  \A a2 \in ev.emitted : \A a1 \in alerts :
    (a1.check = a2.check /\ NonRecovery(a1) /\ NonRecovery(a2) /\ a1.at < a2.at)
      => a2.at - a1.at >= EffectiveCooldown(checks[a2.check])

\* C4 (as claimed): for a failure event that is out of maintenance, at the
\* threshold and on a check that alerted before, the alert decision compares
\* now - last_alert_at with the check's own cooldown when that is > 0, and
\* with the global silence period only when it is 0.
C4_CooldownPrecedence ==
  [][\A c \in DOMAIN checks :
       (/\ FailureApplied(c)
        /\ ~(projects[checks[c].project_id].maintenance_until > now)
        /\ checks[c].failure_count + 1 >= checks[c].threshold
        /\ checks[c].last_alert_at # 0)
       => /\ checks[c].cooldown > 0 =>
               ((LevelsEmitted(c) # {}) <=>
                  (now - checks[c].last_alert_at >= checks[c].cooldown))
          /\ checks[c].cooldown = 0 =>
               ((LevelsEmitted(c) # {}) <=>
                  (now - checks[c].last_alert_at >= getSilencePeriod))]_vars

\* (action) the step applied some event (pulse or dead) to check c
EventApplied(c) ==
  PulseApplied(c, "ok") \/ PulseApplied(c, "error") \/ DeadApplied(c)

\* C5 (as claimed): no alert of any level is emitted for a check at an event
\* that falls inside its project's maintenance window.
C5_NoAlertInMaintenance ==
  [][\A c \in DOMAIN checks :
       (EventApplied(c) /\ projects[checks[c].project_id].maintenance_until > now)
         => LevelsEmitted(c) = {}]_vars

\* C6 (as claimed): last_seen never decreases, and a dead event leaves it
\* unchanged.
C6_LastSeen ==
  [][\A c \in DOMAIN checks :
       /\ checks'[c].last_seen >= checks[c].last_seen
       /\ DeadApplied(c) => checks'[c].last_seen = checks[c].last_seen]_vars

\* C7: a pulse_ok emits a recovery alert exactly when the prior status is not
\* ok and the prior failure_count >= threshold, emits nothing else, and always
\* leaves failure_count = 0, status = ok and last_seen = now.
C7_RecoveryIff ==
  [][\A c \in DOMAIN checks :
       PulseApplied(c, "ok") =>
         /\ LevelsEmitted(c) =
              (IF checks[c].status # "ok"
                  /\ checks[c].failure_count >= checks[c].threshold
               THEN {"recovery"} ELSE {})
         /\ checks'[c].failure_count = 0
         /\ checks'[c].status = "ok"
         /\ checks'[c].last_seen = now]_vars

\* a pulse_ok has just emitted a recovery alert
C7_Witness ==
  /\ ev.op = "pulse" /\ ev.status = "ok" /\ ev.resp = 200
  /\ \E a \in ev.emitted : a.level = "recovery" /\ a.check = ev.cid
  /\ checks[ev.cid].status = "ok" /\ checks[ev.cid].last_seen = now

\* C9: a sweep applies a dead event to exactly the heartbeat checks with
\* monitor on, status not dead and last_seen + interval + grace < now (strict),
\* other than watch-dog:self-health.
C9_SweepSelection ==
  [][ev'.op = "tick" =>
       /\ ev'.dead =
            {c \in DOMAIN checks :
               /\ c # selfCheckId
               /\ checks[c].type = "heartbeat"
               /\ checks[c].monitor = 1
               /\ checks[c].status # "dead"
               /\ checks[c].last_seen + checks[c].interval + checks[c].grace < now}
       /\ \A c \in DOMAIN checks \ {selfCheckId} :
            IF c \in ev'.dead
            THEN /\ checks'[c].status = "dead"
                 /\ checks'[c].failure_count = checks[c].failure_count + 1
            ELSE checks'[c] = checks[c]]_vars

\* a sweep has just passed over a monitored heartbeat check whose deadline
\* last_seen + interval + grace equals now
C9_Witness ==
  /\ ev.op = "tick" /\ ev.dead = {}
  /\ \E c \in DOMAIN checks :
       /\ checks[c].type = "heartbeat" /\ checks[c].monitor = 1
       /\ checks[c].status # "dead"
       /\ checks[c].last_seen + checks[c].interval + checks[c].grace = now

\* C8 (as claimed): once the client of a monitored heartbeat check has stopped
\* pulsing, a sweep eventually emits a critical alert for that check, whatever
\* its threshold.
C8_DeadEventuallyAlerts ==
  \A c \in {CheckId(PA, NC)} :
    (/\ c \in stopped
     /\ checks[c].type = "heartbeat" /\ checks[c].monitor = 1
     /\ checks[c].status # "dead")
    ~> (/\ ev.op = "tick"
        /\ \E a \in ev.emitted : a.check = c /\ a.level = "critical")

\* C10 (as claimed): a pulse changes a check row, or emits an alert for it,
\* only if the presented token is the stored token of the project that owns
\* the row.
C10_PulseScopedToOwner ==
  [][ev'.op = "pulse" =>
       /\ \A c \in DOMAIN checks :
            checks'[c] # checks[c] =>
              ev'.token = projects[checks[c].project_id].token
       /\ \A a \in ev'.emitted :
            ev'.token = projects[checks[a.check].project_id].token]_vars

\* (action) the pulse handled by the step presented a token that
\* authenticates it: a project found by the token when the body names none,
\* else the named project with that stored token
PulseAuthenticated ==
  /\ ev'.token # "" /\ ev'.status # "malformed"
  /\ ev'.pid \in DOMAIN projects
  /\ projects[ev'.pid].token = ev'.token

C12_IngestFrame ==
  [][(ev'.op = "pulse" /\ ev'.resp = 200) =>
       /\ DOMAIN checks' = DOMAIN checks
       /\ ev'.cid \in DOMAIN checks
       /\ \A c \in DOMAIN checks \ {ev'.cid} : checks'[c] = checks[c]
       /\ Len(logs') = Len(logs) + 1
       /\ SubSeq(logs', 1, Len(logs)) = logs
       /\ logs'[Len(logs')].check_id = ev'.cid
       /\ Cardinality(ev'.emitted) <= 1
       /\ \A a \in ev'.emitted : a.check = ev'.cid
       /\ alerts' = alerts \cup ev'.emitted
       /\ projects' = projects
       /\ settings' = settings]_vars

\* an accepted pulse alerted while another project's check row exists
C12_Witness ==
  /\ ev.op = "pulse" /\ ev.resp = 200
  /\ Cardinality(ev.emitted) = 1
  /\ Cardinality(DOMAIN checks) >= 2
  /\ Cardinality(DOMAIN projects) >= 2
  /\ checks[ev.cid].failure_count = 1

\* C13 (as claimed): however many invocations on a check overlap, no window
\* of the length of its effective cooldown holds more than two non-recovery
\* alerts for it.
C13_AtMostOneDuplicate ==
  \A a \in alerts :
    NonRecovery(a) =>
      Cardinality({b \in alerts :
                     /\ b.check = a.check /\ NonRecovery(b)
                     /\ b.at >= a.at
                     /\ b.at < a.at + EffectiveCooldown(checks[a.check])}) <= 2

\* C14 (as claimed): the write of an invocation changes the check row only if
\* the row is still as the invocation read it.
C14_NoStaleOverwrite ==
  [][\A i \in DOMAIN pending :
       (pending' = Remove(pending, i) /\ checks' # checks)
         => checks[pending[i].cid] = pending[i].check]_vars

\* the self-health row is ok, seen at now, and logged at now
SelfPulsedNow(tbl, rows) ==
  /\ selfCheckId \in DOMAIN tbl
  /\ tbl[selfCheckId].status = "ok"
  /\ tbl[selfCheckId].last_seen = now
  /\ tbl[selfCheckId].failure_count = 0
  /\ \E i \in DOMAIN rows :
       rows[i] = [check_id |-> selfCheckId, status |-> "ok", created_at |-> now]

\* C15 (as claimed): after every tick the self-health check is ok with
\* last_seen at the tick time and a log row of that time, unconditionally.
C15_SelfPulseAlways ==
  [][ev'.op = "tick" => SelfPulsedNow(checks', logs')]_vars

\* C15 (amended): a tick that finds the self-health row leaves it ok with
\* last_seen at the tick time and appends its log row; a tick that finds no
\* such row creates none and logs nothing for it.
C15_SelfPulseIfRegistered ==
  [][ev'.op = "tick" =>
       IF selfCheckId \in DOMAIN checks
       THEN /\ SelfPulsedNow(checks', logs')
            /\ Len(SelectSeq(logs', LAMBDA r : r.check_id = selfCheckId))
                 = Len(SelectSeq(logs, LAMBDA r : r.check_id = selfCheckId)) + 1
       ELSE /\ selfCheckId \notin DOMAIN checks'
            /\ \A i \in DOMAIN logs' : logs'[i].check_id # selfCheckId]_vars

\* a tick found the self-health row in error and left it ok at the tick time
C15_Witness ==
  /\ ev.op = "tick"
  /\ SelfPulsedNow(checks, logs)
  /\ \E i \in DOMAIN logs :
       logs[i].check_id = selfCheckId /\ logs[i].status = "error"
  /\ now > 1

\* C16 (as claimed): in a tick where the dead transition of one overdue check
\* fails, every other overdue check the tick selected is still made dead.
C16_SweepIsolation ==
  [][(ev'.op = "tick" /\ ev'.status = "fault") =>
       \A c \in deadChecks(selfPulsed(checks, now), projects, now) \ {ev'.cid} :
         checks'[c].status = "dead" /\ c \in ev'.dead]_vars

\* C17: a registration for an existing project under another token than the
\* stored one is answered 403 and changes no project row and no check row;
\* no registration changes the stored token of an existing project.
C17_RegisterTokenGuard ==
  [][ev'.op = "register" =>
       /\ (/\ ev'.token # ""
           /\ ev'.pid \in DOMAIN projects
           /\ projects[ev'.pid].token # ev'.token)
            => (ev'.resp = 403 /\ projects' = projects /\ checks' = checks)
       /\ \A p \in DOMAIN projects :
            p \in DOMAIN projects' /\ projects'[p].token = projects[p].token]_vars

\* a registration under the other project's token was refused
C17_Witness ==
  /\ ev.op = "register" /\ ev.resp = 403
  /\ ev.pid \in DOMAIN projects
  /\ projects[ev.pid].token # ev.token
  /\ \E p \in DOMAIN projects : projects[p].token = ev.token

\* the attributes of a check row that registration must not touch
StateAttributes(row) ==
  <<row.project_id, row.name, row.status, row.last_seen, row.failure_count,
    row.last_alert_at, row.last_message, row.monitor>>

\* an accepted registration, repeated with the same inputs at time t2, leaves
\* both tables as the first call left them
RegisterTwiceSame(r, t2) ==
  LET p1 == upsertProject(projects, r[2], r[1], r[3], now)
      c1 == upsertChecks(checks, r[2], r[4])
  IN ~tokenMismatch(projects, r[2], r[1]) =>
       /\ ~tokenMismatch(p1, r[2], r[1])
       /\ upsertProject(p1, r[2], r[1], r[3], t2) = p1
       /\ upsertChecks(c1, r[2], r[4]) = c1

\* C18: a registration repeated with identical inputs changes nothing more,
\* and an accepted registration leaves the state attributes and monitor flag
\* of every existing check, and the token, maintenance_until and created_at of
\* every existing project, unchanged.
C18_RegisterIdempotent ==
  /\ [](\A r \in RegisterCalls : \A t2 \in now..MaxTime : RegisterTwiceSame(r, t2))
  /\ [][(ev'.op = "register" /\ ev'.resp = 200) =>
          /\ \A c \in DOMAIN checks :
               /\ c \in DOMAIN checks'
               /\ StateAttributes(checks'[c]) = StateAttributes(checks[c])
          /\ \A p \in DOMAIN projects :
               /\ p \in DOMAIN projects'
               /\ projects'[p].token = projects[p].token
               /\ projects'[p].maintenance_until = projects[p].maintenance_until
               /\ projects'[p].created_at = projects[p].created_at
          /\ logs' = logs /\ alerts' = alerts /\ settings' = settings]_vars

\* a registration was accepted for a project created earlier and in
\* maintenance, whose check is muted and has failures counted
C18_Witness ==
  /\ ev.op = "register" /\ ev.resp = 200
  /\ projects[PA].created_at < now
  /\ projects[PA].maintenance_until > 0
  /\ CheckId(PA, NC) \in DOMAIN checks
  /\ checks[CheckId(PA, NC)].monitor = 0
  /\ checks[CheckId(PA, NC)].failure_count > 0
  /\ checks[CheckId(PA, NC)].last_seen < now
  /\ checks[CheckId(PA, NC)].type = "event"

\* (action) the step is an accepted pulse on check c that repeats the accepted
\* pulse handled just before it: same token, same status, same now
Replay(c) ==
  /\ ev.op = "pulse" /\ ev.resp = 200 /\ ev.cid = c
  /\ ev'.op = "pulse" /\ ev'.resp = 200 /\ ev'.cid = c
  /\ ev'.token = ev.token /\ ev'.status = ev.status
  /\ checks[c].last_seen = now /\ now' = now

ModuloLastSeen(row) == [row EXCEPT !.last_seen = 0]

\* C19 (as claimed): a replayed pulse, ok or error, leaves the check row as
\* the first application left it, last_seen aside.
C19_ReplaySameRow ==
  [][\A c \in DOMAIN checks :
       Replay(c) => ModuloLastSeen(checks'[c]) = ModuloLastSeen(checks[c])]_vars

\* C19 (amended): a replayed ok pulse leaves the check row as the first
\* application left it and sends nothing; a replayed error pulse counts as one
\* more failure.
C19_ReplayOkSameRow ==
  [][\A c \in DOMAIN checks :
       Replay(c) =>
         /\ ev'.status = "ok" =>
              (checks'[c] = checks[c] /\ ev'.emitted = {})
         /\ ev'.status = "error" =>
              checks'[c].failure_count = checks[c].failure_count + 1]_vars

\* an ok pulse that sent a recovery alert was replayed in the same second
C19_Witness ==
  /\ ev.op = "pulse" /\ ev.resp = 200 /\ ev.status = "ok"
  /\ Len(logs) >= 2
  /\ logs[Len(logs)] = [check_id |-> ev.cid, status |-> "ok", created_at |-> now]
  /\ logs[Len(logs) - 1] = logs[Len(logs)]
  /\ [check |-> ev.cid, level |-> "recovery", at |-> now] \in alerts
  /\ checks[ev.cid].last_alert_at = now

\* C20 (as claimed): inside the maintenance window a failure event is
\* counted and sets the status but emits nothing, and once the window has
\* ended the first alert of any level for a check not seen since is emitted
\* by a failure event.
C20_AlertsOnlyOnFailure ==
  [][\A c \in DOMAIN checks :
       /\ (FailureApplied(c)
           /\ projects[checks[c].project_id].maintenance_until > now)
            => /\ checks'[c].failure_count = checks[c].failure_count + 1
               /\ checks'[c].status = (IF DeadApplied(c) THEN "dead" ELSE "error")
               /\ LevelsEmitted(c) = {}
       /\ (/\ projects[checks[c].project_id].maintenance_until > 0
           /\ projects[checks[c].project_id].maintenance_until <= now
           /\ checks[c].last_seen < projects[checks[c].project_id].maintenance_until
           /\ LevelsEmitted(c) # {})
            => FailureApplied(c)]_vars

\* C20 (amended): inside the window a failure event is counted and sets the
\* status but emits nothing and leaves last_alert_at; warning and critical
\* alerts are emitted only by failure events outside the window; a recovery
\* alert is emitted only by an ok pulse; no other operation emits an alert.
C20_FailureAlertsOnlyOnFailure ==
  [][\A c \in DOMAIN checks :
       /\ (FailureApplied(c)
           /\ projects[checks[c].project_id].maintenance_until > now)
            => /\ checks'[c].failure_count = checks[c].failure_count + 1
               /\ checks'[c].status = (IF DeadApplied(c) THEN "dead" ELSE "error")
               /\ checks'[c].last_alert_at = checks[c].last_alert_at
               /\ LevelsEmitted(c) = {}
       /\ LevelsEmitted(c) \cap {"warning", "critical"} # {}
            => /\ FailureApplied(c)
               /\ projects[checks[c].project_id].maintenance_until <= now
       /\ "recovery" \in LevelsEmitted(c) => PulseApplied(c, "ok")
       /\ ev'.op \notin {"pulse", "tick"} => alerts' = alerts]_vars

\* a failure counted silently inside the window is followed, after the
\* window's end, by a failure that sends the check's first alert
C20_Witness ==
  /\ ev.op = "pulse" /\ ev.status = "error"
  /\ ev.emitted = {[check |-> ev.cid, level |-> "warning", at |-> now]}
  /\ alerts = ev.emitted
  /\ checks[ev.cid].threshold = 1
  /\ checks[ev.cid].failure_count = 2
  /\ projects[ev.pid].maintenance_until > 0
  /\ projects[ev.pid].maintenance_until <= now

\* --------------------------------------------------------------- MaintSpec
\* The maintenance endpoint with every shape of body: enabled true, false or
\* omitted, with and without a duration.
MaintDurations == {Absent, <<2>>}

MaintCall ==
  \E projectId \in {PA, PAB}, enabled \in {"true", "false", ""},
     duration \in MaintDurations :
    MaintenanceReq(projectId, enabled, duration)

MaintRegister ==
  \E cfgs \in ConfigLists(ConfigsFor(NC)) : RegisterReq("t1", PA, "A", cfgs)

MaintPulse == PulseReq("t1", PA, NC, "error", "")

MaintNext == MaintRegister \/ MaintCall \/ MaintPulse \/ Advance

MaintSpec == Init /\ [][MaintNext]_vars

\* (action) the step is a maintenance request that found its project
MaintenanceApplied == ev'.op = "maintenance" /\ ev'.resp = 200

\* C21 (as claimed): enabled = true sets maintenance_until to now + (duration
\* or 3600), enabled = false sets it to 0, and an omitted enabled toggles (to 0
\* when the project is in maintenance, into maintenance otherwise), with or
\* without a duration.
C21_MaintenanceToggles ==
  [][MaintenanceApplied =>
       LET before == projects[ev'.pid].maintenance_until
           after == projects'[ev'.pid].maintenance_until
       IN /\ ev'.status = "true" =>
               after = now + withDefault(ev'.arg, DefaultMaintenance)
          /\ ev'.status = "false" => after = 0
          /\ ev'.status = "" =>
               IF before > now THEN after = 0 ELSE after > now]_vars

\* C21 (amended): enabled = true sets maintenance_until to now + (duration or
\* 3600), enabled = false sets it to 0; with enabled omitted, a supplied
\* duration sets it to now + duration, and only a body with neither field
\* toggles (to 0 when in maintenance, to now + 3600 otherwise).
C21_MaintenanceSemantics ==
  [][MaintenanceApplied =>
       LET before == projects[ev'.pid].maintenance_until
           after == projects'[ev'.pid].maintenance_until
       IN /\ ev'.status = "true" =>
               after = now + withDefault(ev'.arg, DefaultMaintenance)
          /\ ev'.status = "false" => after = 0
          /\ ev'.status = "" /\ Has(ev'.arg) => after = now + Val(ev'.arg)
          /\ ev'.status = "" /\ ~Has(ev'.arg) =>
               after = IF before > now THEN 0 ELSE now + DefaultMaintenance]_vars

\* a body with a duration and no enabled field has set the window
C21_Witness ==
  /\ ev.op = "maintenance" /\ ev.resp = 200
  /\ ev.status = "" /\ ev.arg = <<2>>
  /\ projects[ev.pid].maintenance_until = now + 2
  /\ now > 1

\* C22 (as claimed): a maintenance request for project P changes
\* P.maintenance_until only if it presents P's token. The handler reads no
\* header, so the token it has taken from the request (ev.token) is empty.
C22_MaintenanceNeedsToken ==
  [][MaintenanceApplied
       /\ projects'[ev'.pid].maintenance_until # projects[ev'.pid].maintenance_until
       => ev'.token = projects[ev'.pid].token]_vars

\* C23 (as claimed): while the monitor flag of a check is off, neither a tick
\* nor a pulse for that check makes the worker notify: no call of
\* sendSlackAlert is made for it.
C23_MutedCheckSilent ==
  [][\A c \in DOMAIN checks :
       checks[c].monitor = 0 => LevelsEmitted(c) = {}]_vars

\* -------------------------------------------------------------- NotifySpec
\* The notifier under every shape of the Slack settings: the calls made by
\* pulses and ticks, and the exported helpers of services/alert.ts applied
\* with well-formed alert data.
alertHelper(level, checkId) ==
  /\ posted' = posted \cup
                  sendSlackAlert(settings, [checkId |-> checkId, level |-> level])
  /\ ev' = Event("alert", NoId, checkId, "", level, 0, {}, {})
  /\ UNCHANGED <<now, projects, checks, settings, logs, alerts, stopped, pending>>

alertCritical(checkId) == alertHelper("critical", checkId)

alertRecovery(checkId) == alertHelper("recovery", checkId)

alertWarning(checkId) == alertHelper("warning", checkId)

NotifySlackInputs ==
  {[api_token |-> "xoxb", channel_critical |-> "C1", channel_success |-> "C2"],
   [api_token |-> "xoxb", channel_critical |-> "C1", channel_success |-> ""],
   [api_token |-> "xoxb", channel_critical |-> "", channel_success |-> "C2"],
   [api_token |-> "", channel_critical |-> "C1", channel_success |-> "C2"]}

NotifySettings == \E slack \in NotifySlackInputs : AdminSettings(slack, 0)

NotifyRegister ==
  RegisterReq("t1", PA, "A", <<cfg(NC, "heartbeat", <<1>>, <<1>>, Absent, Absent)>>)

NotifyPulse == \E status \in {"ok", "error"} : PulseReq("t1", PA, NC, status, "")

NotifyNext ==
  \/ NotifyRegister \/ NotifyPulse \/ NotifySettings \/ Tick \/ Advance
  \/ alertCritical(CheckId(PA, NC))
  \/ alertRecovery(CheckId(PA, NC))
  \/ alertWarning(CheckId(PA, NC))

NotifySpec == Init /\ [][NotifyNext]_vars

\* C24: when the API token is empty, or the channel resolved for the level of
\* an alert is empty, the notifier posts nothing and returns; the pulse or tick
\* that made the call still succeeds and the rows it wrote are kept.
C24_DropsSilently ==
  [][/\ settings.api_token = "" => posted' = posted
     /\ ev'.op = "alert" /\ channelId(settings, ev'.status) = ""
          => posted' = posted
     /\ \A c \in DOMAIN checks :
          (\E a \in ev'.emitted :
              /\ a.check = c
              /\ settings.api_token = "" \/ channelId(settings, a.level) = "")
          => /\ posted' = posted
             /\ ev'.op = "pulse" => ev'.resp = 200
             /\ checks'[c].last_alert_at = now
             /\ checks'[c].status =
                  (IF DeadApplied(c) THEN "dead" ELSE ev'.status)
             /\ Len(logs') > Len(logs)]_vars

\* a recovery alert handed to the notifier while the token is set and
\* channel_success is empty was dropped, although other alerts were posted
C24_Witness ==
  /\ ev.op = "alert" /\ ev.status = "recovery"
  /\ settings.api_token # "" /\ settings.channel_success = ""
  /\ posted # {}
  /\ \A m \in posted : m.level # "recovery"

\* the level the claim gives to the alert of an event on check c
ClaimedLevel(c) ==
  IF DeadApplied(c) THEN "critical"
  ELSE IF PulseApplied(c, "error") THEN "warning"
  ELSE "recovery"

\* the channel the claim routes a level to
ClaimedChannel(set, level) ==
  IF level = "recovery" THEN set.channel_success ELSE set.channel_critical

\* C25 (as claimed): an alert of a pulse_error has level warning, of a dead
\* event critical, of a pulse_ok recovery; with the token and the channel of
\* the level configured, the alert is posted to channel_critical (warning,
\* critical) or channel_success (recovery), and to that channel only.
C25_LevelAndRoute ==
  [][\A c \in DOMAIN checks : \A a \in ev'.emitted :
       a.check = c =>
         /\ a.level = ClaimedLevel(c)
         /\ settings.api_token # "" /\ ClaimedChannel(settings, a.level) # ""
              => \E m \in posted' :
                   /\ m.check = c /\ m.level = a.level
                   /\ m.channel = ClaimedChannel(settings, a.level)
         /\ \A m \in posted' \ posted :
              m.channel = ClaimedChannel(settings, a.level)]_vars

\* C26 (as claimed): the key project_id:name is injective over what register
\* creates: no check row has an empty project_id or name, and the key a
\* registered project builds for a check name is never the id of a row that
\* belongs to another project or carries another name.
C26_KeyInjective ==
  \A c \in DOMAIN checks :
    /\ checks[c].project_id # NoId /\ checks[c].name # NoId
    /\ \A p \in DOMAIN projects : \A n \in {NC, NBC} :
         CheckId(p, n) = c => p = checks[c].project_id /\ n = checks[c].name

\* -------------------------------------------------------------- HeaderSpec
\* Requests of a client that holds the token t1 of project a and presents it
\* in the X-Project-Token header or as Authorization: Bearer t1.
LegacyHeaders(tok) == [x_project_token |-> tok, authorization |-> <<>>]

BearerHeaders(tok) == [x_project_token |-> "", authorization |-> <<"Bearer", tok>>]

ClientHeaders == {LegacyHeaders("t1"), BearerHeaders("t1")}

\* c.req.header('X-Project-Token'): the only header the handlers read
headerToken(headers) == headers.x_project_token

HeaderRegister ==
  \E h \in ClientHeaders : \E cfgs \in ConfigLists(ConfigsFor(NC)) :
    RegisterReq(headerToken(h), PA, "A", cfgs)

HeaderPulse ==
  \E h \in ClientHeaders : \E status \in {"ok", "error"} :
    PulseReq(headerToken(h), PA, NC, status, "")

HeaderNext == HeaderRegister \/ HeaderPulse \/ Advance

HeaderSpec == Init /\ [][HeaderNext]_vars

\* C27 (as claimed): a pulse or config request that presents the project's
\* token as Authorization: Bearer is authenticated like one that presents it as
\* X-Project-Token: no request of a client that holds the token, whichever
\* header it uses, is answered 401 (missing auth).
C27_BearerAccepted ==
  [][ev'.op \in {"pulse", "register"} => ev'.resp # 401]_vars

\* --------------------------------------------------------------- PruneSpec
\* Pulses and ticks of one heartbeat check over a clock that also passes the
\* log retention period in one step.
Leap ==
  /\ now <= MaxTime
  /\ now' = now + LogRetention
  /\ ev' = Event("advance", NoId, NoId, "", "", 0, {}, {})
  /\ UNCHANGED <<projects, checks, settings, logs, alerts, stopped, pending, posted>>

PruneRegister ==
  RegisterReq("t1", PA, "A", <<cfg(NC, "heartbeat", <<1>>, <<1>>, Absent, Absent)>>)

PrunePulse == \E status \in {"ok", "error"} : PulseReq("t1", PA, NC, status, "")

PruneNext == PruneRegister \/ PrunePulse \/ Tick \/ Advance \/ Leap

PruneSpec == Init /\ [][PruneNext]_vars

\* the rows of a log that a tick at time t has to keep
Retained(rows, t) == SelectSeq(rows, LAMBDA r : r.created_at >= t - LogRetention)

\* C28: after a tick at time t no log row older than t - 604800 remains and
\* every row not older than that is still there; apart from this, a tick
\* appends one row per dead event (and one for the self-pulse) and an accepted
\* pulse appends one row, each with the resulting status of its check and
\* created_at = t, and nothing else touches the log.
C28_LogPrunedAndAppended ==
  [][/\ ev'.op = "tick" =>
          LET kept == Retained(logs, now)
              self == IF selfCheckId \in DOMAIN checks THEN {selfCheckId} ELSE {}
              added == (Len(kept) + 1)..Len(logs')
          IN /\ \A i \in 1..Len(logs') : logs'[i].created_at >= now - LogRetention
             /\ Len(logs') = Len(kept) + Cardinality(ev'.dead \cup self)
             /\ SubSeq(logs', 1, Len(kept)) = kept
             /\ \A c \in ev'.dead \cup self :
                  Cardinality({i \in added : logs'[i].check_id = c}) = 1
             /\ \A i \in added :
                  /\ logs'[i].created_at = now
                  /\ logs'[i].status = checks'[logs'[i].check_id].status
     /\ ev'.op = "pulse" /\ ev'.resp = 200 =>
          logs' = Append(logs, [check_id |-> ev'.cid,
                                status |-> checks'[ev'.cid].status,
                                created_at |-> now])
     /\ ~(ev'.op = "tick") /\ ~(ev'.op = "pulse" /\ ev'.resp = 200) =>
          logs' = logs]_vars

\* a tick has deleted the row of an alerting event older than the retention
\* period and kept a row that is exactly as old as the period
C28_Witness ==
  /\ ev.op = "tick"
  /\ \E a \in alerts :
       /\ a.at < now - LogRetention
       /\ \A i \in 1..Len(logs) : logs[i].created_at # a.at
  /\ \E i \in 1..Len(logs) : logs[i].created_at = now - LogRetention
  /\ \E i \in 1..Len(logs) : logs[i].created_at = now

\* --------------------------------------------------------------- StampSpec
\* Every operation that writes a check row or a project row, on one heartbeat
\* check and on the self-health check: registration, pulses, maintenance,
\* admin edits, ticks and the clock.
StampRegister ==
  \/ RegisterReq("t1", PA, "A", <<cfg(NC, "heartbeat", <<1>>, <<1>>, Absent, <<0>>)>>)
  \/ RegisterReq("t1", WD, "Watch-Dog", <<SelfConfig>>)

StampPulse ==
  \E status \in {"ok", "error"} : PulseReq("t1", PA, NC, status, "")

StampMaintenance == MaintenanceReq(PA, "true", <<1>>)

StampAdmin ==
  \/ \E form \in Forms : AdminUpdateCheck(CheckId(PA, NC), form)
  \/ AdminToggle(CheckId(PA, NC), "0")

StampNext ==
  \/ StampRegister \/ StampPulse \/ StampMaintenance \/ StampAdmin
  \/ Tick \/ Advance

StampSpec == Init /\ [][StampNext]_vars

\* C29: a step that emits an alert for a check at time now writes its row
\* with last_alert_at = now; a step that emits none for it (a non-alerting
\* event, the self-pulse, register, maintenance, an admin edit) leaves its
\* last_alert_at as it was; so last_alert_at never decreases.
C29_LastAlertAt ==
  [][\A c \in DOMAIN checks :
       /\ LevelsEmitted(c) # {} => checks'[c].last_alert_at = now
       /\ LevelsEmitted(c) = {} =>
            checks'[c].last_alert_at = checks[c].last_alert_at
       /\ checks'[c].last_alert_at >= checks[c].last_alert_at]_vars

\* a recovery alert has moved last_alert_at past the failure alert before it
C29_Witness ==
  /\ ev.op = "pulse" /\ ev.resp = 200
  /\ \E a \in ev.emitted : a.level = "recovery" /\ a.at = now
  /\ checks[ev.cid].last_alert_at = now
  /\ \E b \in alerts : b.check = ev.cid /\ NonRecovery(b) /\ b.at < now

\* the log rows of check c, oldest first
RowsOf(c) == SelectSeq(logs, LAMBDA r : r.check_id = c)

\* the time of the first event of check c since its last ok event (the start
\* of its current incident), read from the log
IncidentStart(c) ==
  LET rows == RowsOf(c)
      oks == {i \in 1..Len(rows) : rows[i].status = "ok"}
      first == IF oks = {} THEN 1
               ELSE (CHOOSE i \in oks : \A j \in oks : j <= i) + 1
  IN IF first <= Len(rows) THEN rows[first].created_at ELSE now

\* C30 (as claimed): every recovery alert emitted for a check is preceded,
\* since the check was last in status ok, by an emitted warning or critical
\* alert for that check, also when the incident ran inside a maintenance
\* window or a cooldown.
C30_RecoveryAfterAlert ==
  [][\A c \in DOMAIN checks :
       "recovery" \in LevelsEmitted(c) =>
         \E a \in alerts :
           a.check = c /\ NonRecovery(a) /\ a.at >= IncidentStart(c)]_vars

\* ---------------------------------------------------------------- FlapSpec
\* One heartbeat check, registered once with threshold 3 or with the default
\* threshold, then pulses, maintenance, ticks and the clock.
FlapConfigs ==
  {cfg(NC, "heartbeat", <<1>>, <<1>>, <<3>>, <<600>>),
   cfg(NC, "heartbeat", <<1>>, <<1>>, Absent, Absent)}

FlapRegister ==
  \E c \in FlapConfigs :
    CheckId(PA, NC) \notin DOMAIN checks /\ RegisterReq("t1", PA, "A", <<c>>)

FlapPulse == \E status \in {"ok", "error"} : PulseReq("t1", PA, NC, status, "")

FlapMaintenance == MaintenanceReq(PA, "true", <<1>>)

FlapNext == FlapRegister \/ FlapPulse \/ FlapMaintenance \/ Tick \/ Advance

FlapSpec == Init /\ [][FlapNext]_vars

\* the statuses of the events applied to check c, oldest first
StatusesOf(c) == [i \in 1..Len(RowsOf(c)) |-> RowsOf(c)[i].status]

\* the number of events applied to check c since its last ok event
TrailingFailures(c) ==
  LET st == StatusesOf(c)
      oks == {i \in 1..Len(st) : st[i] = "ok"}
  IN IF oks = {} THEN Len(st)
     ELSE Len(st) - (CHOOSE i \in oks : \A j \in oks : j <= i)

\* C31: failure_count is the number of consecutive non-ok events applied to
\* the check since its last pulse_ok or its creation; in particular after
\* error, error, ok on a check of threshold 3 no alert was emitted and the
\* check is ok with failure_count 0.
C31_CountsConsecutiveFailures ==
  \A c \in DOMAIN checks :
    /\ checks[c].failure_count = TrailingFailures(c)
    /\ StatusesOf(c) = <<"error", "error", "ok">> /\ checks[c].threshold = 3
         => /\ {a \in alerts : a.check = c} = {}
            /\ checks[c].status = "ok" /\ checks[c].failure_count = 0

\* error, error, ok has been applied to a check of threshold 3
C31_Witness ==
  \E c \in DOMAIN checks :
    /\ StatusesOf(c) = <<"error", "error", "ok">> /\ checks[c].threshold = 3
    /\ checks[c].failure_count = 0 /\ now > 1

\* ---------------------------------------------------------------- ProcSpec
\* One invocation of processCheckResult at a time, statement by statement:
\* the rows are read by the caller, the transition is computed, the UPDATE,
\* the log INSERT and the sendSlackAlert call follow, and the Store may fail
\* at the UPDATE, at the INSERT or at the settings query of the notifier.
\* pending holds the invocation in progress and the statement it has reached.
Staged(inv, logged) ==
  [inv |-> inv, stage |-> "read", logged |-> logged,
   r |-> rowAfter(inv.check, inv.project, inv.status, inv.message,
                  getSilencePeriod, inv.t),
   emitted |-> alertsOf(inv.cid, inv.check, inv.project, inv.status,
                        getSilencePeriod, inv.t)]

\* what the caller reports when the invocation ends: the pulse handler answers
\* 200, or 400 from its catch; scheduled logs the error of a failed tick
procEnd(inv, returned, emitted) ==
  IF inv.status = "dead"
  THEN Event("tick", NoId, inv.cid, "", IF returned THEN "" ELSE "fault", 0,
             emitted, IF returned THEN {inv.cid} ELSE {})
  ELSE Event("pulse", inv.check.project_id, inv.cid, inv.project.token,
             inv.status, IF returned THEN 200 ELSE 400, emitted, {})

\* POST /api/pulse up to the call of processCheckResult
ProcPulseRead(token, projectId, check_name, status) ==
  LET checkId == CheckId(projectId, check_name) IN
  /\ pending = <<>>
  /\ pulseProjects(token, projectId) = {projectId}
  /\ checkId \in DOMAIN checks
  /\ checks[checkId].failure_count < MaxCount
  /\ pending' = <<Staged(Invocation(checkId, checks[checkId], projects[projectId],
                                     pulseStatus(status),
                                     pulseMessage("", status), now),
                          Len(logs))>>
  /\ ev' = Event("read", projectId, checkId, token, pulseStatus(status), 0, {}, {})
  /\ UNCHANGED <<now, projects, checks, settings, logs, alerts, stopped, posted>>

\* scheduled up to the call of processCheckResult for the dead check
ProcSweepRead ==
  LET tbl == selfPulsed(checks, now)
      dead == deadChecks(tbl, projects, now)
  IN /\ pending = <<>>
     /\ LogRoom(Len(selfLog(checks, now)))
     /\ \E c \in dead :
          /\ dead = {c}
          /\ pending' = <<Staged(Invocation(c, tbl[c], projects[tbl[c].project_id],
                                             "dead", "Heartbeat missed", now),
                                  Len(logs) + Len(selfLog(checks, now)))>>
     /\ checks' = tbl
     /\ logs' = logs \o selfLog(checks, now)
     /\ ev' = Event("sweep", NoId, NoId, "", "dead", 0, {}, {})
     /\ UNCHANGED <<now, projects, settings, alerts, stopped, posted>>

\* the UPDATE of processCheckResult, or its failure
ProcUpdate(fault) ==
  /\ pending # <<>> /\ pending[1].stage = "read"
  /\ LET st == pending[1] IN
     IF fault
     THEN /\ pending' = <<>>
          /\ ev' = procEnd(st.inv, FALSE, {})
          /\ UNCHANGED checks
     ELSE /\ checks' = [checks EXCEPT ![st.inv.cid] = writtenOver(@, st.r)]
          /\ pending' = <<[st EXCEPT !.stage = "row"]>>
          /\ ev' = Event("update", st.inv.check.project_id, st.inv.cid, "",
                         st.inv.status, 0, {}, {})
  /\ UNCHANGED <<now, projects, settings, logs, alerts, stopped, posted>>

\* the INSERT INTO logs of processCheckResult, or its failure
ProcLog(fault) ==
  /\ pending # <<>> /\ pending[1].stage = "row"
  /\ LET st == pending[1] IN
     IF fault
     THEN /\ pending' = <<>>
          /\ ev' = procEnd(st.inv, FALSE, {})
          /\ UNCHANGED logs
     ELSE /\ LogRoom(1)
          /\ logs' = Append(logs, logRow(st.inv.cid, st.inv.status, st.inv.t))
          /\ pending' = <<[st EXCEPT !.stage = "log"]>>
          /\ ev' = Event("log", st.inv.check.project_id, st.inv.cid, "",
                         st.inv.status, 0, {}, {})
  /\ UNCHANGED <<now, projects, checks, settings, alerts, stopped, posted>>

afterNotify_Rollback(tbl, st, outcome) ==
  IF outcome = "threw" THEN [tbl EXCEPT ![st.inv.cid] = st.inv.check] ELSE tbl

\* the checks table after the notify step: the statements of
\* processCheckResult run in no transaction, nothing is undone
afterNotify(tbl, st, outcome) == tbl

\* if (shouldAlert) await sendSlackAlert(...): the call returns (also when the
\* fetch fails, which it catches) or throws from its settings query; a tick
\* whose loop returned then deletes the old log rows
ProcNotify(outcome) ==
  /\ pending # <<>> /\ pending[1].stage = "log"
  /\ LET st == pending[1] IN
     /\ outcome = "threw" => st.emitted # {}
     /\ alerts' = alerts \cup st.emitted
     /\ posted' = posted \cup
          (IF outcome = "returned" THEN notified(settings, st.emitted) ELSE {})
     /\ checks' = afterNotify(checks, st, outcome)
     /\ logs' = IF st.inv.status = "dead" /\ outcome = "returned"
                THEN pruned(logs, now) ELSE logs
     /\ pending' = <<>>
     /\ ev' = procEnd(st.inv, outcome = "returned", st.emitted)
  /\ UNCHANGED <<now, projects, settings, stopped>>

\* pulses the handler answers with an error before processCheckResult
ProcReject ==
  \/ PulseReq("", PA, NC, "ok", "")
  \/ PulseReq("t2", PA, NC, "ok", "")
  \/ PulseReq("t1", PA, NBC, "ok", "")
  \/ PulseReq("t1", PA, NoId, "ok", "")
  \/ PulseMalformed("t1")

ProcRegister ==
  /\ pending = <<>>
  /\ RegisterReq("t1", PA, "A", <<cfg(NC, "heartbeat", <<1>>, <<1>>, Absent, Absent)>>)

ProcNext ==
  \/ ProcRegister
  \/ \E status \in {"ok", "error"} : ProcPulseRead("t1", PA, NC, status)
  \/ ProcSweepRead
  \/ \E fault \in BOOLEAN : ProcUpdate(fault)
  \/ \E fault \in BOOLEAN : ProcLog(fault)
  \/ \E outcome \in {"returned", "threw"} : ProcNotify(outcome)
  \/ ProcReject
  \/ Advance

ProcSpec == Init /\ [][ProcNext]_vars

\* the statement the invocation in progress has reached, "" when there is none
Stage == IF pending = <<>> THEN "" ELSE pending[1].stage

\* C32: within one invocation the check row is written after the read, the log
\* row after the check row, and the notifier is called only after both; when
\* the notify step ends, with or without a failure, the written check row and
\* log row are still there.
C32_WriteLogNotifyOrder ==
  [][/\ (alerts' # alerts \/ posted' # posted) => Stage = "log"
     /\ (logs' # logs /\ ev'.op # "sweep") => Stage = "row"
     /\ (checks' # checks /\ ev'.op \notin {"register", "sweep"})
          => Stage = "read"
     /\ (Stage = "log" /\ pending' = <<>>) =>
          LET st == pending[1] IN
          /\ checks'[st.inv.cid] = writtenOver(checks'[st.inv.cid], st.r)
          /\ checks' = checks
          /\ Len(logs') > st.logged
          /\ logs'[st.logged + 1] = logRow(st.inv.cid, st.inv.status, st.inv.t)]_vars

\* the notifier has thrown after a failure alert was decided, and the check
\* row and the log row of the event are in the Store
C32_Witness ==
  /\ ev.op = "pulse" /\ ev.resp = 400 /\ ev.emitted # {}
  /\ checks[ev.cid].status = "error"
  /\ checks[ev.cid].last_alert_at = checks[ev.cid].last_seen
  /\ \E i \in 1..Len(logs) :
       logs[i] = logRow(ev.cid, "error", checks[ev.cid].last_seen)

\* C34 (as claimed): a pulse answered with an error (400, 401, 403 or 404) has
\* changed no check row, appended no log row and made no notification, also
\* when the error comes from a Store or notifier fault inside
\* processCheckResult.
C34_ErrorMeansNoEffect ==
  [][(ev'.op = "pulse" /\ ev'.resp \in {400, 401, 403, 404}) =>
       /\ ev'.emitted = {} /\ alerts' = alerts /\ posted' = posted
       /\ IF pending # <<>>
          THEN /\ checks'[pending[1].inv.cid] = pending[1].inv.check
               /\ Len(logs') = pending[1].logged
          ELSE checks' = checks /\ logs' = logs]_vars

\* C33 (as claimed): the write of a dead invocation of a tick commits status
\* dead, and sends its critical alert, only if the stored row is still overdue
\* at the moment of the write; a pulse committed after the scan of the tick is
\* left as it is.
C33_DeadOnlyIfStillOverdue ==
  [][\A i \in DOMAIN pending :
       (/\ ev'.op = "write" /\ pending' = Remove(pending, i)
        /\ pending[i].status = "dead"
        /\ ~isOverdue(checks[pending[i].cid], now))
       => /\ checks'[pending[i].cid] = checks[pending[i].cid]
          /\ ev'.emitted = {}]_vars

\* C35: a tick applies a dead event only to a check that is not dead already,
\* the event adds 1 to failure_count and one dead row to the log, and a dead
\* check leaves status dead only by a pulse; so between two pulses a check is
\* written and logged as dead at most once, however long it stays silent.
C35_DeadOncePerOutage ==
  [][\A c \in DOMAIN checks :
       /\ DeadApplied(c) =>
            /\ checks[c].status # "dead"
            /\ checks'[c].status = "dead"
            /\ checks'[c].failure_count = checks[c].failure_count + 1
            /\ Cardinality({i \in 1..Len(logs') :
                              logs'[i] = logRow(c, "dead", now)}) = 1
       /\ (checks[c].status = "dead" /\ checks'[c].status # "dead")
            => PulseApplied(c, "ok") \/ PulseApplied(c, "error")
       /\ (checks[c].status = "dead" /\ ev'.op = "tick")
            => checks'[c] = checks[c]]_vars

\* a tick long after the check was written as dead has left it alone
C35_Witness ==
  /\ ev.op = "tick" /\ ev.dead = {}
  /\ \E c \in DOMAIN checks :
       /\ checks[c].status = "dead" /\ checks[c].failure_count = 1
       /\ isOverdue(checks[c], now)
       /\ checks[c].last_seen + LogRetention <= now

\* ---------------------------------------------------------------- CoolSpec
\* One heartbeat check of threshold 1 whose own cooldown (3) is longer than the
\* global silence period an administrator may set (2): pulses, ticks, the
\* silence setting and the clock.
CoolRegister ==
  RegisterReq("t1", PA, "A", <<cfg(NC, "heartbeat", <<1>>, <<1>>, Absent, <<3>>)>>)

CoolNext == CoolRegister \/ CorePulse \/ CoreSettings \/ Tick \/ Advance

CoolSpec == Init /\ [][CoolNext]_vars

\* C36 (as claimed): a recovery alert restarts the cooldown window: when the
\* last alert of a check is a recovery alert at t = last_alert_at, a failure
\* event at a time now with now - t less than the effective cooldown emits no
\* warning or critical alert.
C36_RecoveryRestartsCooldown ==
  [][\A c \in DOMAIN checks :
       (/\ FailureApplied(c)
        /\ \E a \in alerts :
             a.check = c /\ a.level = "recovery" /\ a.at = checks[c].last_alert_at
        /\ now - checks[c].last_alert_at < EffectiveCooldown(checks[c]))
       => LevelsEmitted(c) \cap {"warning", "critical"} = {}]_vars

\* C37: a heartbeat check created by register has last_seen = 0; while it has
\* received no pulse, a tick at a time now > interval + grace applies a dead
\* event to it, however recently it was registered, and emits a critical
\* alert when its threshold is 1, its project is not in maintenance and it
\* never alerted.
C37_NewHeartbeatGoesDead ==
  [][/\ \A c \in DOMAIN checks' \ DOMAIN checks :
          checks'[c].type = "heartbeat" => checks'[c].last_seen = 0
     /\ \A c \in DOMAIN checks :
          (/\ ev'.op = "tick"
           /\ checks[c].type = "heartbeat" /\ checks[c].monitor = 1
           /\ checks[c].last_seen = 0 /\ checks[c].status = "ok"
           /\ now > checks[c].interval + checks[c].grace)
          => /\ DeadApplied(c) /\ checks'[c].status = "dead"
             /\ (/\ checks[c].threshold = 1
                 /\ ~(projects[checks[c].project_id].maintenance_until > now)
                 /\ checks[c].last_alert_at = 0)
                => LevelsEmitted(c) = {"critical"}]_vars

\* a check registered at the time of the tick, never pulsed, is dead and has
\* alerted
C37_Witness ==
  /\ ev.op = "tick"
  /\ \E c \in ev.dead :
       /\ projects[checks[c].project_id].created_at = now
       /\ checks[c].status = "dead" /\ checks[c].failure_count = 1
       /\ logs = <<logRow(c, "dead", now)>>
       /\ alertRow(c, "critical", now) \in ev.emitted

\* -------------------------------------------------------------- ThreshSpec
\* Registrations that send no threshold, threshold 0 or threshold 2 for one
\* check, the admin edit form, pulses and the clock.
ThreshInputs == {Absent, <<0>>, <<2>>}

ThreshRegister ==
  \E th \in ThreshInputs :
    RegisterReq("t1", PA, "A", <<cfg(NC, "event", Absent, Absent, th, Absent)>>)

ThreshAdmin == \E form \in Forms : AdminUpdateCheck(CheckId(PA, NC), form)

ThreshNext == ThreshRegister \/ ThreshAdmin \/ CorePulse \/ Advance

ThreshSpec == Init /\ [][ThreshNext]_vars

\* C38 (as claimed): every stored check row has threshold >= 1 after any
\* sequence of registrations and admin check updates.
C38_ThresholdPositive ==
  \A c \in DOMAIN checks : checks[c].threshold >= 1

\* ------------------------------------------------------------- EnrolSpec
\* Overlapping PUT /api/config requests: a request first reads the project
\* row and tests the token; its upserts happen in a later step. Two clients
\* with different tokens register the same project id.
Enrolment(token, project_id, display_name, cfgs) ==
  [token |-> token, project_id |-> project_id, display_name |-> display_name,
   cfgs |-> cfgs]

\* PUT /api/config up to the token test on the project row it has read
RegisterRead(token, project_id, display_name, cfgs) ==
  IF token = "" THEN Reject("register", project_id, NoId, token, "", 401)
  ELSE IF project_id = NoId \/ display_name = ""
  THEN Reject("register", project_id, NoId, token, "", 400)
  ELSE IF tokenMismatch(projects, project_id, token)
  THEN Reject("register", project_id, NoId, token, "", 403)
  ELSE /\ Len(pending) < MaxInflight
       /\ pending' = Append(pending, Enrolment(token, project_id, display_name, cfgs))
       /\ ev' = Event("read", project_id, NoId, token, "", 0, {}, {})
       /\ UNCHANGED <<now, projects, checks, settings, logs, alerts, stopped, posted>>

\* the upserts of the request and its 200 response
RegisterWrite(i) ==
  LET e == pending[i] IN
  /\ projects' = upsertProject(projects, e.project_id, e.token, e.display_name, now)
  /\ checks' = upsertChecks(checks, e.project_id, e.cfgs)
  /\ pending' = Remove(pending, i)
  /\ ev' = Event("register", e.project_id, NoId, e.token, "", 200, {}, {})
  /\ UNCHANGED <<now, settings, logs, alerts, stopped, posted>>

EnrolRead ==
  \/ RegisterRead("t1", PA, "A", <<cfg(NC, "event", Absent, Absent, Absent, Absent)>>)
  \/ RegisterRead("t2", PA, "B", <<cfg(NBC, "event", Absent, Absent, Absent, Absent)>>)

EnrolWrite == \E i \in DOMAIN pending : RegisterWrite(i)

EnrolPulse == \E token \in Tokens : PulseReq(token, PA, NC, "error", "")

EnrolNext == EnrolRead \/ EnrolWrite \/ EnrolPulse \/ Advance

EnrolSpec == Init /\ [][EnrolNext]_vars

\* C39 (as claimed): of two overlapping registrations of one new project id
\* under different tokens, only the one whose token ends up stored modifies
\* the project row or a check row.
C39_LosingRegisterChangesNothing ==
  [][(/\ ev'.op = "register" /\ ev'.resp = 200
      /\ (projects' # projects \/ checks' # checks))
     => projects'[ev'.pid].token = ev'.token]_vars
====
